---------------------------- MODULE Spec2Model ----------------------------
(***************************************************************************)
(* A model of vmnet.c (VMnet 0.4): the setuid SLIP relay between           *)
(* stdin/stdout and a pty whose slave side runs the SLIP line discipline.  *)
(*                                                                         *)
(* Strings are sequences of character codes without the terminating NUL.   *)
(* Descriptors 0, 1 and 2 are open when the program starts, so getpt()     *)
(* and open() hand out 3 and 4.                                            *)
(***************************************************************************)
EXTENDS Integers, Sequences, FiniteSets, TLC

(* ------------------------------ bounds --------------------------------- *)

\* Number of packet bytes the host sends after its first line.
MaxHostBytes == 2
\* Number of bytes the link (pty master) delivers towards the host.
MaxLinkBytes == 2
\* Number of lines of a configuration store of the authorization check.
MaxStoreLines == 2

(* -------------------------- program constants -------------------------- *)

NUL == 0
NL == 10
Hash == 35
\* sizeof(sc->remoteip), the len handed to readline
RemoteIpSize == 64
\* sizeof(buf->data)
BufSize == 16384
\* the field widths of the sscanf format "%127s %63s %63s %255s"
WUser == 127
WRemote == 63
WLocal == 63
WScript == 255
\* the n of the three strncpy calls of login
UserCopy == 127
LocalCopy == 64
ScriptCopy == 256
\* line disciplines: the pty's own, and SLIP
N_TTY == 0
N_SLIP == 1
\* the descriptors of stdin and stdout
STDIN == 0
STDOUT == 1

Min(a, b) == IF a < b THEN a ELSE b

(* ------------------------------ strings -------------------------------- *)

\* strcmp on two NUL-terminated strings: 0 iff equal, else the sign of the
\* first differing character (the terminator counts as character 0).
RECURSIVE Strcmp(_, _)
StrcmpPrefix(a, b) ==
    IF a = <<>> THEN 0
    ELSE IF b = <<>> THEN Head(a)
    ELSE IF Head(a) # Head(b) THEN Head(a) - Head(b)
    ELSE Strcmp(Tail(a), Tail(b))
Strcmp(a, b) ==
    IF a = <<>> /\ b = <<>> THEN 0
    ELSE IF a = <<>> THEN NUL - Head(b)
    ELSE IF b = <<>> THEN Head(a) - NUL
    ELSE IF Head(a) # Head(b) THEN Head(a) - Head(b)
    ELSE Strcmp(Tail(a), Tail(b))

\* strncpy(dst, src, n) as far as the string it leaves in dst goes: at most
\* n characters of src.
Strncpy(src, n) == SubSeq(src, 1, Min(Len(src), n))

(* ------------------------- configuration store ------------------------- *)

\* A store is a sequence of lines; a line is the sequence of its
\* whitespace-separated fields, left to right (none for a blank line).

\* sscanf's %<w>s conversions over a line: each takes at most w characters
\* of the next field and leaves the rest of an over-long field to the next
\* conversion.  The result is the sequence of strings assigned.
RECURSIVE ScanFields(_, _, _)
ScanFields(toks, widths, acc) ==
    IF widths = <<>> \/ toks = <<>> THEN acc
    ELSE LET t == Head(toks)
             w == Head(widths)
         IN  IF Len(t) <= w
             THEN ScanFields(Tail(toks), Tail(widths), Append(acc, t))
             ELSE ScanFields(<<SubSeq(t, w + 1, Len(t))>> \o Tail(toks),
                             Tail(widths), Append(acc, SubSeq(t, 1, w)))

FormatWidths == <<WUser, WRemote, WLocal, WScript>>

\* r = sscanf(...): the number of fields assigned, EOF (-1) on a blank line
SscanfCount(line) ==
    IF line = <<>> THEN -1 ELSE Len(ScanFields(line, FormatWidths, <<>>))

\* cfg after "cfg->script[0] = '\0'; sscanf(linebuffer, ..., cfg->...)":
\* a field the line does not reach keeps what it held.
SscanfInto(cfg, line) ==
    LET f == ScanFields(line, FormatWidths, <<>>)
    IN  [username |-> IF Len(f) >= 1 THEN f[1] ELSE cfg.username,
         remoteip |-> IF Len(f) >= 2 THEN f[2] ELSE cfg.remoteip,
         localip  |-> IF Len(f) >= 3 THEN f[3] ELSE cfg.localip,
         script   |-> IF Len(f) >= 4 THEN f[4] ELSE <<>>]

FirstChar(s) == IF s = <<>> THEN NUL ELSE Head(s)

\* the test of line 153 that ends getcfgentry's loop
AcceptsLineOfTwo(r, cfg) == r >= 2 /\ FirstChar(cfg.username) # Hash
AcceptsLine(r, cfg) == r >= 3 /\ FirstChar(cfg.username) # Hash

\* getcfgentry at the end of the store, lines 146-148: fclose, fp = NULL,
\* return NULL.
EndOfStoreLeftOpen(file, cfg) == [ret |-> FALSE, fp |-> Len(file) + 1, cfg |-> cfg]
EndOfStore(file, cfg) == [ret |-> FALSE, fp |-> 0, cfg |-> cfg]

\* getcfgentry with the store open at line fpos (1-based): reads lines until
\* one is accepted or the store ends.  ret is FALSE for NULL; fp is the
\* position after the call, 0 for the closed store (fp = NULL).
RECURSIVE getcfgentry(_, _, _)
getcfgentry(file, fpos, cfg) ==
    IF fpos > Len(file)
    THEN EndOfStore(file, cfg)
    ELSE LET c == SscanfInto(cfg, file[fpos])
             r == SscanfCount(file[fpos])
         IN  IF AcceptsLine(r, c)
             THEN [ret |-> TRUE, fp |-> fpos + 1, cfg |-> c]
             ELSE getcfgentry(file, fpos + 1, c)

\* the comparison of getcfgbyid, lines 162-163
IdMatchesUserOnly(username, remoteip, cfg) ==
    Strcmp(username, cfg.username) = 0
IdMatches(username, remoteip, cfg) ==
    Strcmp(username, cfg.username) = 0 /\ Strcmp(remoteip, cfg.remoteip) = 0


(* ------------------------------- state --------------------------------- *)

VARIABLES
    pc,          \* where the single thread of control stands
    go,          \* the global flag sig_catch clears
    exitcode,    \* the process's exit status, -1 while it runs
    exitAt,      \* which exit statement ended the run
    sc,          \* main's slipconn
    os,          \* what the kernel holds: line discipline, open descriptors,
                 \* real uid, and the log of hook commands, ioctls and closes
    cfgfile,     \* the lines of CONFIG_FILE
    pwname,      \* pw_name of the invoking uid
    fp,          \* getcfgentry's static FILE *: 0 for NULL, else next line
    cfg,         \* login's cfgentry
    returned,    \* what the getcfgentry calls returned so far, in order
    rl,          \* readline's n and the bytes it stored in buf[0..n-1]
    slip,        \* slip_setup's locals disc and sencap
    hostData,    \* every byte the host will ever put on stdin
    hostPos,     \* how many of them have been read
    linkData,    \* every byte the link will ever deliver on the pty master
    linkPos,     \* how many of them have been read
    stdinbuf,    \* main's struct buf of the host->link direction
    stdoutbuf,   \* main's struct buf of the link->host direction
    rfds, wfds,  \* main's registration sets
    readfds, writefds, \* the copies select works on
    n,           \* select's result
    stdinRead,   \* bytes the relay read from stdin, in order
    masterWritten, \* bytes written to the pty master, in order
    masterRead,  \* bytes the relay read from the pty master, in order
    stdoutWritten, \* bytes written to stdout, in order
    lastio,      \* the last read or write of the relay and its result
    lastReadLen  \* what the last read of stdin and of the master returned

vars == <<pc, go, exitcode, exitAt, sc, os, cfgfile, pwname, fp, cfg, returned,
          rl, slip,
          hostData, hostPos, linkData, linkPos, stdinbuf, stdoutbuf,
          rfds, wfds, readfds, writefds, n,
          stdinRead, masterWritten, masterRead, stdoutWritten, lastio,
          lastReadLen>>

envVars == <<cfgfile, pwname, hostData, linkData>>
cfgVars == <<fp, cfg, returned>>
bufVars == <<stdinbuf, stdoutbuf>>
fdVars == <<rfds, wfds, readfds, writefds, n>>
ioVars == <<hostPos, linkPos, stdinRead, masterWritten, masterRead,
            stdoutWritten, lastio, lastReadLen>>
exitVars == <<exitcode, exitAt>>

(* ------------------------------- inputs -------------------------------- *)

\* The packet bytes of each direction, all distinct.
HostPayload == [i \in 1..MaxHostBytes |-> 100 + i]
LinkPayload == [i \in 1..MaxLinkBytes |-> 200 + i]

\* A first line as long as readline's buffer: 64 characters '9', then '\n'.
LongLine == [i \in 1..RemoteIpSize |-> 57] \o <<NL>>

\* Three stores: "a 1 x s"; "#" / "b 1 y" / "a 1" / "a 1 y" / "a 1 x s";
\* and "a 7 z".
StoreScript == << <<<<97>>, <<49>>, <<120>>, <<115>>>> >>
StoreSecond == << <<<<Hash>>>>, <<<<98>>, <<49>>, <<121>>>>,
                  <<<<97>>, <<49>>>>, <<<<97>>, <<49>>, <<121>>>>,
                  <<<<97>>, <<49>>, <<120>>, <<115>>>> >>
StoreSeven == << <<<<97>>, <<55>>, <<122>>>> >>

\* A run's store and what its host sends: "1\n" then packets, against two
\* stores; "2\n" then packets; "12" and then the end of the stream; nothing
\* at all; a first line of 64 characters, then packets.
Scenarios ==
    { <<StoreScript, <<49, NL>> \o HostPayload>>,
      <<StoreSecond, <<49, NL>> \o HostPayload>>,
      <<StoreScript, <<50, NL>> \o HostPayload>>,
      <<StoreScript, <<49, 50>>>>,
      <<StoreSeven, <<>>>>,
      <<StoreScript, LongLine \o HostPayload>> }

\* What an uninitialised sc.remoteip may hold as a string.
UninitStrings == {<<>>, <<55>>}
\* What an uninitialised struct buf may hold in len.
UninitLens == {0, 3}

NoCfg == [username |-> <<>>, remoteip |-> <<>>, localip |-> <<>>, script |-> <<>>]

Init ==
    /\ pc = "login"
    /\ go = 1
    /\ exitcode = -1
    /\ exitAt = "running"
    /\ sc = [masterfd |-> -1, slavefd |-> -1, unit |-> -1, oldldisc |-> -1,
             username |-> <<>>, remoteip |-> <<>>, localip |-> <<>>,
             script |-> <<>>]
    /\ os = [ldisc |-> N_TTY, encap |-> 1, raw |-> FALSE, open |-> {0, 1, 2},
             ruid |-> 1000, log |-> <<>>]
    /\ \E sn \in Scenarios : cfgfile = sn[1] /\ hostData = sn[2]
    /\ pwname = <<97>>
    /\ fp = 0
    /\ cfg = NoCfg
    /\ returned = <<>>
    /\ rl = [n |-> 0, buf |-> <<>>]
    /\ slip = [disc |-> -1, sencap |-> 0]
    /\ hostPos = 0
    /\ linkData = LinkPayload
    /\ linkPos = 0
    /\ stdinbuf \in {[len |-> l, ptr |-> 0, data |-> <<>>] : l \in UninitLens}
    /\ stdoutbuf \in {[len |-> l, ptr |-> 0, data |-> <<>>] : l \in UninitLens}
    /\ rfds = {} /\ wfds = {} /\ readfds = {} /\ writefds = {}
    /\ n = 0
    /\ stdinRead = <<>> /\ masterWritten = <<>>
    /\ masterRead = <<>> /\ stdoutWritten = <<>>
    /\ lastio = [op |-> "none", fd |-> -1, res |-> 0]
    /\ lastReadLen = [stdin |-> 0, master |-> 0]

(* ------------------------------ signals -------------------------------- *)

\* sig_catch, run on SIGHUP, SIGINT, SIGTERM or SIGQUIT.  The handlers are
\* installed without SA_RESTART, so a select that is blocked returns -1.
sig_catch ==
    /\ pc \notin {"exited", "killed"}
    /\ go' = 0
    /\ IF pc = "select_wait"
       THEN /\ n' = -1
            /\ pc' = "loop"
       ELSE UNCHANGED <<n, pc>>
    /\ UNCHANGED <<exitVars, sc, os, envVars, cfgVars, rl, slip, bufVars,
                   rfds, wfds, readfds, writefds, ioVars>>

(* ------------------------------- exits --------------------------------- *)

Exit(code, at) ==
    /\ pc' = "exited"
    /\ exitcode' = code
    /\ exitAt' = at

(* ------------------------------- login --------------------------------- *)

\* login, lines 176-177: getpwuid(getuid()) and the copy of pw_name.  With
\* no passwd entry pw is NULL and pw->pw_name kills the process.
LoginStart ==
    /\ pc = "login"
    /\ \E found \in BOOLEAN :
         IF found
         THEN /\ sc' = [sc EXCEPT !.username = Strncpy(pwname, UserCopy)]
              /\ pc' = "readline"
              /\ UNCHANGED exitVars
         ELSE /\ pc' = "killed"
              /\ exitcode' = 139
              /\ exitAt' = "getpwuid"
              /\ UNCHANGED sc
    /\ UNCHANGED <<go, os, envVars, cfgVars, rl, slip, bufVars, fdVars, ioVars>>

\* readline's loop condition, line 126, after buf[n++] was stored
ReadlineGoesOn(byte, cnt, len) == byte # NL /\ cnt < len

\* One turn of readline's loop, lines 121-126: read(fd, &buf[n], 1).  The
\* read yields the next byte, or 0 at the end of the stream, or -1 (an
\* error, or a signal that interrupted it).
ReadlineStep ==
    /\ pc = "readline"
    /\ \E r \in {-1, 0, 1} :
         /\ r = 1 => hostPos < Len(hostData)
         /\ r = 0 => hostPos = Len(hostData)
         /\ IF r <= 0
            THEN /\ pc' = "strip"
                 /\ UNCHANGED <<rl, hostPos>>
            ELSE LET byte == hostData[hostPos + 1]
                 IN  /\ rl' = [n |-> rl.n + 1, buf |-> Append(rl.buf, byte)]
                     /\ hostPos' = hostPos + 1
                     /\ pc' = IF ReadlineGoesOn(byte, rl.n + 1, RemoteIpSize)
                              THEN "readline" ELSE "strip"
    /\ UNCHANGED <<go, exitVars, sc, os, envVars, cfgVars, slip, bufVars, fdVars,
                   linkPos, stdinRead, masterWritten, masterRead,
                   stdoutWritten, lastio, lastReadLen>>

\* The string a char array holds: the bytes before the first NUL.
RECURSIVE CStr(_)
CStr(b) == IF b = <<>> \/ Head(b) = NUL THEN <<>> ELSE <<Head(b)>> \o CStr(Tail(b))

\* login, line 180: sc->remoteip[n-1] = '\0'.  The array then holds the
\* first n-1 bytes readline stored.  With n = 0 the store goes to the byte
\* before the array (username[127]) and the array keeps what the stack held.
LoginStrip ==
    /\ pc = "strip"
    /\ IF rl.n >= 1
       THEN sc' = [sc EXCEPT !.remoteip = CStr(SubSeq(rl.buf, 1, rl.n - 1))]
       ELSE \E g \in UninitStrings : sc' = [sc EXCEPT !.remoteip = g]
    /\ pc' = "getcfgbyid"
    /\ UNCHANGED <<go, exitVars, os, envVars, cfgVars, rl, slip, bufVars, fdVars,
                   ioVars>>

\* getcfgentry, lines 136-142: the lazy fopen; without the file, exit(1).
GetCfgOpen ==
    /\ pc = "getcfgbyid"
    /\ fp = 0
    /\ \E opened \in BOOLEAN :
         IF opened
         THEN /\ fp' = 1
              /\ UNCHANGED <<pc, exitVars>>
         ELSE /\ Exit(1, "fopen")
              /\ UNCHANGED fp
    /\ UNCHANGED <<go, sc, os, envVars, cfg, returned, rl, slip, bufVars, fdVars,
                   ioVars>>

\* One turn of getcfgbyid's loop, lines 161-167, with the store open: a
\* getcfgentry call and the comparison; at a match login copies the
\* record (lines 188-189), at the end of the store it exits (line 186).
GetCfgById ==
    /\ pc = "getcfgbyid"
    /\ fp # 0
    /\ LET e == getcfgentry(cfgfile, fp, cfg)
       IN  /\ fp' = e.fp
           /\ cfg' = e.cfg
           /\ returned' = Append(returned, [ret |-> e.ret, cfg |-> e.cfg])
           /\ IF ~e.ret
              THEN /\ Exit(1, "unauthorized")
                   /\ UNCHANGED sc
              ELSE IF IdMatches(sc.username, sc.remoteip, e.cfg)
              THEN /\ sc' = [sc EXCEPT
                               !.localip = Strncpy(e.cfg.localip, LocalCopy),
                               !.script = Strncpy(e.cfg.script, ScriptCopy)]
                   /\ pc' = "setuid"
                   /\ UNCHANGED exitVars
              ELSE UNCHANGED <<pc, exitVars, sc>>
    /\ UNCHANGED <<go, os, envVars, rl, slip, bufVars, fdVars, ioVars>>

(* ---------------------------- link teardown ---------------------------- *)

\* interface_stop: system("ifconfig sl<unit> down [&& <script> down ...]")
interface_stop_swapped(o, s) ==
    [o EXCEPT !.log = Append(@, <<"down", s.unit, s.script, s.localip, s.remoteip>>)]
interface_stop(o, s) ==
    [o EXCEPT !.log = Append(@, <<"down", s.unit, s.script, s.remoteip, s.localip>>)]

\* slip_release: ioctl(slavefd, TIOCSETD, &oldldisc), which only reports a
\* failure (ok = FALSE), then the two closes.
slip_release(o, s, ok) ==
    [o EXCEPT !.ldisc = IF ok THEN s.oldldisc ELSE @,
              !.open = @ \ {s.masterfd, s.slavefd},
              !.log = @ \o << <<"setd", s.oldldisc, ok>>,
                              <<"close", s.masterfd>>,
                              <<"close", s.slavefd>> >>]

slip_stop(o, s, ok) == slip_release(interface_stop(o, s), s, ok)

\* The error branches of bufread (lines 349-353) and bufwrite (362-366):
\* slip_stop, then exit(1).
bufread_fail_nostop(o, s, ok) == o
bufread_fail(o, s, ok) == slip_stop(o, s, ok)
bufwrite_fail(o, s, ok) == slip_stop(o, s, ok)

\* How often slip_stop has run: once per deactivation command.
Teardowns == Cardinality({i \in DOMAIN os.log : os.log[i][1] = "down"})
Activations == Cardinality({i \in DOMAIN os.log : os.log[i][1] = "up"})
Restores == Cardinality({i \in DOMAIN os.log : os.log[i][1] = "setd"})

(* --------------------------- link establisher --------------------------- *)

\* main, line 380: setuid(0) in a setuid-root program
Setuid ==
    /\ pc = "setuid"
    /\ os' = [os EXCEPT !.ruid = 0]
    /\ pc' = "open_pty"
    /\ UNCHANGED <<go, exitVars, sc, envVars, cfgVars, rl, slip, bufVars, fdVars,
                   ioVars>>

\* The lowest descriptor not in use.
LowestFree(open) == CHOOSE f \in 0..(Cardinality(open)) :
                        f \notin open /\ \A g \in 0..(f - 1) : g \in open

\* open_pty_pair's way out of a failure after getpt, lines 202-203,
\* 207-208, 213-214: close(master).
CloseMasterForgotten(open, master) == open
CloseMaster(open, master) == open \ {master}

\* open_pty_pair, lines 192-221, with the call named by failed failing
\* ("none": all succeed).  ret is its return value, open the descriptors
\* open after it, master and slave what it stored through its pointers
\* (-1: nothing stored).
open_pty_pair(open, failed) ==
    IF failed = "getpt"
    THEN [ret |-> 0, open |-> open, master |-> -1, slave |-> -1]
    ELSE LET master == LowestFree(open)
             slave == LowestFree(open \cup {master})
         IN  IF failed \in {"grantpt", "unlockpt", "ptsname_r", "open"}
             THEN [ret |-> 0, open |-> CloseMaster(open \cup {master}, master),
                   master |-> -1, slave |-> -1]
             ELSE [ret |-> 1, open |-> open \cup {master, slave},
                   master |-> master, slave |-> slave]

\* slip_start, lines 307-310: open_pty_pair, and exit(1) when it returns 0.
OpenPtyPair ==
    /\ pc = "open_pty"
    /\ \E failed \in {"none", "getpt", "grantpt", "unlockpt", "ptsname_r", "open"} :
         LET p == open_pty_pair(os.open, failed)
         IN  /\ os' = [os EXCEPT !.open = p.open]
             /\ IF p.ret # 0
                THEN /\ sc' = [sc EXCEPT !.masterfd = p.master,
                                         !.slavefd = p.slave]
                     /\ pc' = "tty_setup"
                     /\ UNCHANGED exitVars
                ELSE /\ Exit(1, "open_pty_pair")
                     /\ UNCHANGED sc
    /\ UNCHANGED <<go, envVars, cfgVars, rl, slip, bufVars, fdVars, ioVars>>

\* tty_setup: a failed tcgetattr is only reported; a failed tcsetattr is
\* exit(1).
TtySetup ==
    /\ pc = "tty_setup"
    /\ \E getok \in BOOLEAN, setok \in BOOLEAN :
         IF setok
         THEN /\ os' = [os EXCEPT !.raw = TRUE]
              /\ pc' = "getd"
              /\ UNCHANGED exitVars
         ELSE /\ Exit(1, "tcsetattr")
              /\ UNCHANGED os
    /\ UNCHANGED <<go, sc, envVars, cfgVars, rl, slip, bufVars, fdVars, ioVars>>

\* slip_setup, lines 258-261: ioctl(TIOCGETD, &sc->oldldisc)
SlipGetOld ==
    /\ pc = "getd"
    /\ \E ok \in BOOLEAN :
         IF ok
         THEN /\ sc' = [sc EXCEPT !.oldldisc = os.ldisc]
              /\ pc' = "setd"
              /\ UNCHANGED exitVars
         ELSE /\ Exit(1, "TIOCGETD")
              /\ UNCHANGED sc
    /\ UNCHANGED <<go, os, envVars, cfgVars, rl, slip, bufVars, fdVars, ioVars>>

\* slip_setup, lines 263-267: sc->unit = ioctl(TIOCSETD, &disc).  The
\* kernel may report success and yet not have switched (took = FALSE): that
\* is what the re-query of lines 274-287 is for.
SlipSetDisc ==
    /\ pc = "setd"
    /\ \E ok \in BOOLEAN, took \in BOOLEAN :
         IF ok
         THEN /\ os' = [os EXCEPT !.ldisc = IF took THEN N_SLIP ELSE @,
                                  !.log = Append(@, <<"slip", N_SLIP, took>>)]
              /\ sc' = [sc EXCEPT !.unit = 0]
              /\ pc' = "sencap"
              /\ UNCHANGED exitVars
         ELSE /\ Exit(1, "TIOCSETD")
              /\ UNCHANGED <<os, sc>>
    /\ UNCHANGED <<go, envVars, cfgVars, rl, slip, bufVars, fdVars, ioVars>>

\* slip_setup, lines 269-272: ioctl(SIOCSIFENCAP, &sencap) with sencap = 0
SlipSetEncap ==
    /\ pc = "sencap"
    /\ \E ok \in BOOLEAN, took \in BOOLEAN :
         IF ok
         THEN /\ os' = [os EXCEPT !.encap = IF took THEN 0 ELSE @]
              /\ pc' = "getd2"
              /\ UNCHANGED exitVars
         ELSE /\ Exit(1, "SIOCSIFENCAP")
              /\ UNCHANGED os
    /\ UNCHANGED <<go, sc, envVars, cfgVars, rl, slip, bufVars, fdVars, ioVars>>

\* slip_setup, lines 274-277: ioctl(TIOCGETD, &disc)
SlipRequery ==
    /\ pc = "getd2"
    /\ \E ok \in BOOLEAN :
         IF ok
         THEN /\ slip' = [slip EXCEPT !.disc = os.ldisc]
              /\ pc' = "gencap"
              /\ UNCHANGED exitVars
         ELSE /\ Exit(1, "TIOCGETD2")
              /\ UNCHANGED slip
    /\ UNCHANGED <<go, sc, os, envVars, cfgVars, rl, bufVars, fdVars, ioVars>>

\* slip_setup, lines 279-282: ioctl(SIOCGIFENCAP, &sencap)
SlipGetEncap ==
    /\ pc = "gencap"
    /\ \E ok \in BOOLEAN :
         IF ok
         THEN /\ slip' = [slip EXCEPT !.sencap = os.encap]
              /\ pc' = "verify"
              /\ UNCHANGED exitVars
         ELSE /\ Exit(1, "SIOCGIFENCAP")
              /\ UNCHANGED slip
    /\ UNCHANGED <<go, sc, os, envVars, cfgVars, rl, bufVars, fdVars, ioVars>>

\* slip_setup, line 284: the test on what the re-query returned
VerifyFailsOnBoth(disc, sencap) == disc # N_SLIP /\ sencap # 0
VerifyFails(disc, sencap) == disc # N_SLIP \/ sencap # 0

\* slip_setup, lines 284-287: the verification
SlipVerify ==
    /\ pc = "verify"
    /\ IF VerifyFails(slip.disc, slip.sencap)
       THEN Exit(1, "verify")
       ELSE /\ pc' = "ifstart"
            /\ UNCHANGED exitVars
    /\ UNCHANGED <<go, sc, os, envVars, cfgVars, rl, slip, bufVars, fdVars, ioVars>>

\* interface_start: system("ifconfig sl<unit> <local> pointopoint <remote>
\* ... [&& <script> up '<remote>' '<local>']"); its status is not looked at.
InterfaceStart ==
    /\ pc = "ifstart"
    /\ os' = [os EXCEPT !.log = Append(@, <<"up", sc.unit, sc.script,
                                            sc.remoteip, sc.localip>>)]
    /\ pc' = "fdinit"
    /\ UNCHANGED <<go, exitVars, sc, envVars, cfgVars, rl, slip, bufVars, fdVars,
                   ioVars>>

(* ----------------------------- relay engine ---------------------------- *)

\* What read(fd, buf->data, sizeof(buf->data)) may return on a descriptor
\* select reported readable, with avail bytes waiting: -1, or a count of at
\* least one byte and at most the buffer, or 0 when nothing is left.
ReadResults(avail) ==
    {-1} \cup (IF avail > 0 THEN 1..Min(avail, BufSize) ELSE {0})

\* What write(fd, buf->ptr, buf->len) may return: -1 or 0, or a count of at
\* least one byte and at most len.
WriteResults(len) == {-1, 0} \cup 1..len

\* main's test for the end of the host's stream, line 397
IsEofNegative(len) == len < 0
IsEof(len) == len = 0

\* bufread's test of line 349 and bufwrite's of line 362
BufReadFails(len) == len < 0
BufWriteFailsNegative(r) == r < 0
BufWriteFails(r) == r <= 0

\* struct buf after a successful bufread of bytes (lines 348, 354): the
\* data array keeps what it held beyond them.
bufread_keeps_ptr(buf, bytes) ==
    [len |-> Len(bytes), ptr |-> buf.ptr,
     data |-> bytes \o SubSeq(buf.data, Len(bytes) + 1, Len(buf.data))]
bufread(buf, bytes) ==
    [len |-> Len(bytes), ptr |-> 0,
     data |-> bytes \o SubSeq(buf.data, Len(bytes) + 1, Len(buf.data))]

\* The r bytes a write takes from buf->ptr on.
WriteBytes(buf, r) ==
    [i \in 1..r |-> IF buf.ptr + i <= Len(buf.data) THEN buf.data[buf.ptr + i] ELSE NUL]

\* struct buf after a successful bufwrite of r bytes (lines 367-368)
bufwrite_keeps_ptr(buf, r) == [buf EXCEPT !.len = @ - r]
bufwrite(buf, r) == [buf EXCEPT !.len = @ - r, !.ptr = @ + r]

\* main's registration changes: after a read that filled a buffer (lines
\* 402-405, 409-412) and after a write that drained one (416-419, 423-426).
\* Each gives <<rfds, wfds>>.
FilledForgetsClear(r, w, src, dst) == <<r, w \cup {dst}>>
Filled(r, w, src, dst) == <<r \ {src}, w \cup {dst}>>
DrainedNoRead(r, w, src, dst) == <<r, w \ {dst}>>
Drained(r, w, src, dst) == <<r \cup {src}, w \ {dst}>>

\* main, lines 383-386
FdInit ==
    /\ pc = "fdinit"
    /\ rfds' = {sc.masterfd, STDIN}
    /\ wfds' = {}
    /\ pc' = "loop"
    /\ UNCHANGED <<go, exitVars, sc, os, envVars, cfgVars, rl, slip, bufVars,
                   readfds, writefds, n, ioVars>>

\* main, line 388: the test of go.  With go set, lines 389-390 copy the
\* sets and select is about to be called; without, the loop ends and lines
\* 430-431 run slip_stop and return 0.
LoopCheck ==
    /\ pc = "loop"
    /\ IF go # 0
       THEN /\ readfds' = rfds
            /\ writefds' = wfds
            /\ pc' = "select_enter"
            /\ UNCHANGED <<exitVars, os>>
       ELSE /\ \E ok \in BOOLEAN : os' = slip_stop(os, sc, ok)
            /\ Exit(0, "return")
            /\ UNCHANGED <<readfds, writefds>>
    /\ UNCHANGED <<go, sc, envVars, cfgVars, rl, slip, bufVars, rfds, wfds, n,
                   ioVars>>

\* main, line 392: select is entered and the process sleeps.
SelectEnter ==
    /\ pc = "select_enter"
    /\ pc' = "select_wait"
    /\ UNCHANGED <<go, exitVars, sc, os, envVars, cfgVars, rl, slip, bufVars,
                   fdVars, ioVars>>

\* select returns with the descriptors that are ready, at least one, among
\* those it was given.
SelectReturn ==
    /\ pc = "select_wait"
    /\ \E rr \in SUBSET readfds, ww \in SUBSET writefds :
         /\ rr \cup ww # {}
         /\ readfds' = rr
         /\ writefds' = ww
         /\ n' = Cardinality(rr) + Cardinality(ww)
    /\ pc' = "h_stdin_read"
    /\ UNCHANGED <<go, exitVars, sc, os, envVars, cfgVars, rl, slip, bufVars,
                   rfds, wfds, ioVars>>

\* main, lines 395-406: stdin is readable
HandleStdinRead ==
    /\ pc = "h_stdin_read"
    /\ IF STDIN \notin readfds
       THEN /\ pc' = "h_master_read"
            /\ UNCHANGED <<exitVars, os, stdinbuf, rfds, wfds, hostPos,
                           stdinRead, lastio, lastReadLen>>
       ELSE \E res \in ReadResults(Len(hostData) - hostPos) :
              /\ lastio' = [op |-> "read", fd |-> STDIN, res |-> res]
              /\ lastReadLen' = [lastReadLen EXCEPT !.stdin = res]
              /\ IF BufReadFails(res)
                 THEN /\ \E ok \in BOOLEAN : os' = bufread_fail(os, sc, ok)
                      /\ Exit(1, "read")
                      /\ stdinbuf' = [stdinbuf EXCEPT !.len = res]
                      /\ UNCHANGED <<rfds, wfds, hostPos, stdinRead>>
                 ELSE LET k == IF res < 0 THEN 0 ELSE res
                          bytes == SubSeq(hostData, hostPos + 1, hostPos + k)
                          b == bufread(stdinbuf, bytes)
                          f == Filled(rfds, wfds, STDIN, sc.masterfd)
                      IN  /\ stdinbuf' = [b EXCEPT !.len = res]
                          /\ hostPos' = hostPos + k
                          /\ stdinRead' = stdinRead \o bytes
                          /\ IF IsEof(res)
                             THEN /\ \E ok \in BOOLEAN : os' = slip_stop(os, sc, ok)
                                  /\ Exit(0, "eof")
                                  /\ UNCHANGED <<rfds, wfds>>
                             ELSE /\ rfds' = IF res # 0 THEN f[1] ELSE rfds
                                  /\ wfds' = IF res # 0 THEN f[2] ELSE wfds
                                  /\ pc' = "h_master_read"
                                  /\ UNCHANGED <<exitVars, os>>
    /\ UNCHANGED <<go, sc, envVars, cfgVars, rl, slip, stdoutbuf, readfds,
                   writefds, n, linkPos, masterWritten, masterRead,
                   stdoutWritten>>

\* main, lines 407-413: the pty master is readable
HandleMasterRead ==
    /\ pc = "h_master_read"
    /\ IF sc.masterfd \notin readfds
       THEN /\ pc' = "h_master_write"
            /\ UNCHANGED <<exitVars, os, stdoutbuf, rfds, wfds, linkPos,
                           masterRead, lastio, lastReadLen>>
       ELSE \E res \in ReadResults(Len(linkData) - linkPos) :
              /\ lastio' = [op |-> "read", fd |-> sc.masterfd, res |-> res]
              /\ lastReadLen' = [lastReadLen EXCEPT !.master = res]
              /\ IF BufReadFails(res)
                 THEN /\ \E ok \in BOOLEAN : os' = bufread_fail(os, sc, ok)
                      /\ Exit(1, "read")
                      /\ stdoutbuf' = [stdoutbuf EXCEPT !.len = res]
                      /\ UNCHANGED <<rfds, wfds, linkPos, masterRead>>
                 ELSE LET k == IF res < 0 THEN 0 ELSE res
                          bytes == SubSeq(linkData, linkPos + 1, linkPos + k)
                          b == bufread(stdoutbuf, bytes)
                          f == Filled(rfds, wfds, sc.masterfd, STDOUT)
                      IN  /\ stdoutbuf' = [b EXCEPT !.len = res]
                          /\ linkPos' = linkPos + k
                          /\ masterRead' = masterRead \o bytes
                          /\ rfds' = IF res # 0 THEN f[1] ELSE rfds
                          /\ wfds' = IF res # 0 THEN f[2] ELSE wfds
                          /\ pc' = "h_master_write"
                          /\ UNCHANGED <<exitVars, os>>
    /\ UNCHANGED <<go, sc, envVars, cfgVars, rl, slip, stdinbuf, readfds,
                   writefds, n, hostPos, stdinRead, masterWritten,
                   stdoutWritten>>

\* main, lines 414-420: the pty master is writable
HandleMasterWrite ==
    /\ pc = "h_master_write"
    /\ IF sc.masterfd \notin writefds
       THEN /\ pc' = "h_stdout_write"
            /\ UNCHANGED <<exitVars, os, stdinbuf, rfds, wfds, masterWritten,
                           lastio>>
       ELSE \E r \in WriteResults(stdinbuf.len) :
              /\ lastio' = [op |-> "write", fd |-> sc.masterfd, res |-> r]
              /\ IF BufWriteFails(r)
                 THEN /\ \E ok \in BOOLEAN : os' = bufwrite_fail(os, sc, ok)
                      /\ Exit(1, "write")
                      /\ UNCHANGED <<stdinbuf, rfds, wfds, masterWritten>>
                 ELSE LET k == IF r < 0 THEN 0 ELSE r
                          b == bufwrite(stdinbuf, k)
                          d == Drained(rfds, wfds, STDIN, sc.masterfd)
                      IN  /\ masterWritten' = masterWritten \o WriteBytes(stdinbuf, k)
                          /\ stdinbuf' = b
                          /\ rfds' = IF b.len = 0 THEN d[1] ELSE rfds
                          /\ wfds' = IF b.len = 0 THEN d[2] ELSE wfds
                          /\ pc' = "h_stdout_write"
                          /\ UNCHANGED <<exitVars, os>>
    /\ UNCHANGED <<go, sc, envVars, cfgVars, rl, slip, stdoutbuf, readfds,
                   writefds, n, hostPos, linkPos, stdinRead, masterRead,
                   stdoutWritten, lastReadLen>>

\* main, lines 421-427: stdout is writable; then back to the loop's test
HandleStdoutWrite ==
    /\ pc = "h_stdout_write"
    /\ IF STDOUT \notin writefds
       THEN /\ pc' = "loop"
            /\ UNCHANGED <<exitVars, os, stdoutbuf, rfds, wfds, stdoutWritten,
                           lastio>>
       ELSE \E r \in WriteResults(stdoutbuf.len) :
              /\ lastio' = [op |-> "write", fd |-> STDOUT, res |-> r]
              /\ IF BufWriteFails(r)
                 THEN /\ \E ok \in BOOLEAN : os' = bufwrite_fail(os, sc, ok)
                      /\ Exit(1, "write")
                      /\ UNCHANGED <<stdoutbuf, rfds, wfds, stdoutWritten>>
                 ELSE LET k == IF r < 0 THEN 0 ELSE r
                          b == bufwrite(stdoutbuf, k)
                          d == Drained(rfds, wfds, sc.masterfd, STDOUT)
                      IN  /\ stdoutWritten' = stdoutWritten \o WriteBytes(stdoutbuf, k)
                          /\ stdoutbuf' = b
                          /\ rfds' = IF b.len = 0 THEN d[1] ELSE rfds
                          /\ wfds' = IF b.len = 0 THEN d[2] ELSE wfds
                          /\ pc' = "loop"
                          /\ UNCHANGED <<exitVars, os>>
    /\ UNCHANGED <<go, sc, envVars, cfgVars, rl, slip, stdinbuf, readfds,
                   writefds, n, hostPos, linkPos, stdinRead, masterWritten,
                   masterRead, lastReadLen>>

(* ---------------------------- specification ---------------------------- *)

Next ==
    \/ sig_catch
    \/ LoginStart
    \/ ReadlineStep
    \/ LoginStrip
    \/ GetCfgOpen
    \/ GetCfgById
    \/ Setuid
    \/ OpenPtyPair
    \/ TtySetup
    \/ SlipGetOld
    \/ SlipSetDisc
    \/ SlipSetEncap
    \/ SlipRequery
    \/ SlipGetEncap
    \/ SlipVerify
    \/ InterfaceStart
    \/ FdInit
    \/ LoopCheck
    \/ SelectEnter
    \/ SelectReturn
    \/ HandleStdinRead
    \/ HandleMasterRead
    \/ HandleMasterWrite
    \/ HandleStdoutWrite

Spec == Init /\ [][Next]_vars

(* ------------------- the authorization check alone --------------------- *)

\* The lookup of login from line 182 on, for every small store and request:
\* identities "a", "A", "ab"; requested addresses "1", "12", "" and 63
\* characters '1'; lines of three or four fields over these, a line of two
\* fields, a comment line and a line whose second field has 64 characters.
AuthUsers == {<<97>>, <<65>>, <<97, 98>>}
Ones(k) == [i \in 1..k |-> 49]
AuthAddrs == {<<49>>, <<49, 50>>, <<>>, Ones(WRemote)}
AuthLines ==
    { <<u, r, <<120>>>> : u \in AuthUsers, r \in {<<49>>, <<49, 50>>} }
    \cup { <<u, r, <<121>>, <<115>>>> : u \in AuthUsers, r \in {<<49>>, <<49, 50>>} }
    \cup { <<<<97>>, <<49>>>>,
           <<<<Hash, 97>>, <<49>>, <<120>>>>,
           <<<<97>>, Ones(WRemote + 1), <<120>>>> }
AuthStores == UNION { [1..k -> AuthLines] : k \in 0..MaxStoreLines }

AuthInit ==
    /\ pc = "getcfgbyid"
    /\ go = 1
    /\ exitcode = -1
    /\ exitAt = "running"
    /\ pwname \in AuthUsers
    /\ \E r \in AuthAddrs :
         sc = [masterfd |-> -1, slavefd |-> -1, unit |-> -1, oldldisc |-> -1,
               username |-> Strncpy(pwname, UserCopy), remoteip |-> r,
               localip |-> <<>>, script |-> <<>>]
    /\ os = [ldisc |-> N_TTY, encap |-> 1, raw |-> FALSE, open |-> {0, 1, 2},
             ruid |-> 1000, log |-> <<>>]
    /\ cfgfile \in AuthStores
    /\ fp = 0
    /\ cfg = NoCfg
    /\ returned = <<>>
    /\ rl = [n |-> 0, buf |-> <<>>]
    /\ slip = [disc |-> -1, sencap |-> 0]
    /\ hostData = <<>>
    /\ hostPos = 0
    /\ linkData = <<>>
    /\ linkPos = 0
    /\ stdinbuf = [len |-> 0, ptr |-> 0, data |-> <<>>]
    /\ stdoutbuf = [len |-> 0, ptr |-> 0, data |-> <<>>]
    /\ rfds = {} /\ wfds = {} /\ readfds = {} /\ writefds = {}
    /\ n = 0
    /\ stdinRead = <<>> /\ masterWritten = <<>>
    /\ masterRead = <<>> /\ stdoutWritten = <<>>
    /\ lastio = [op |-> "none", fd |-> -1, res |-> 0]
    /\ lastReadLen = [stdin |-> 0, master |-> 0]

AuthNext == GetCfgOpen \/ GetCfgById

AuthSpec == AuthInit /\ [][AuthNext]_vars

(* ------------------------------ properties ----------------------------- *)

IsPrefix(a, b) == Len(a) <= Len(b) /\ a = SubSeq(b, 1, Len(a))

\* select is about to be called, or the process sleeps in it
AtSelect == pc \in {"select_enter", "select_wait"}

\* login has not returned yet
InLogin == pc \in {"login", "readline", "strip", "getcfgbyid"}

\* The record getcfgentry makes of a line, and whether it returns it.
RecordOf(line) == SscanfInto(NoCfg, line)
IsRecord(line) == AcceptsLine(SscanfCount(line), RecordOf(line))

\* The lines of the store whose record has exactly the session's identity
\* and requested remote address.
MatchIdx ==
    {i \in 1..Len(cfgfile) :
        /\ IsRecord(cfgfile[i])
        /\ RecordOf(cfgfile[i]).username = sc.username
        /\ RecordOf(cfgfile[i]).remoteip = sc.remoteip}
FirstMatch == CHOOSE i \in MatchIdx : \A j \in MatchIdx : i <= j

\* C1: whenever select is called, the host->link direction has exactly one
\* of stdin registered for read and the pty master registered for write,
\* and the link->host direction exactly one of the pty master registered
\* for read and stdout registered for write.
C1_Backpressure ==
    AtSelect =>
        /\ readfds = rfds /\ writefds = wfds
        /\ (STDIN \in readfds) # (sc.masterfd \in writefds)
        /\ (sc.masterfd \in readfds) # (STDOUT \in writefds)

\* C1 witness: a wait in the middle of a partial write towards the link
\* while the other direction waits to write too.
C1_Witness ==
    /\ AtSelect
    /\ sc.masterfd \in writefds /\ stdinbuf.ptr > 0 /\ stdinbuf.len > 0
    /\ STDOUT \in writefds

\* C2: the bytes written to the pty master are a prefix of the bytes the
\* relay read from stdin, and the bytes written to stdout are a prefix of
\* the bytes it read from the pty master.
C2_ByteFidelity ==
    /\ IsPrefix(masterWritten, stdinRead)
    /\ IsPrefix(stdoutWritten, masterRead)

\* C2 witness: everything was relayed in both directions, the last buffer
\* towards the link in more than one write.
C2_Witness ==
    /\ masterWritten = HostPayload /\ stdoutWritten = LinkPayload
    /\ stdinbuf.ptr > 1 /\ lastio.op = "write" /\ lastio.res < stdinbuf.ptr
    /\ lastio.fd = sc.masterfd

\* The exits the program makes on a fatal error of the configuration
\* reader, of the link setup and of the relay.
ConfigExits == {"fopen"}
SetupExits == {"open_pty_pair", "tcsetattr", "TIOCGETD", "TIOCSETD",
               "SIOCSIFENCAP", "TIOCGETD2", "SIOCGIFENCAP", "verify"}
RelayExits == {"read", "write"}

C4_NoWaitAfterSignal == ~(pc = "select_wait" /\ go = 0)

\* The line discipline was switched to SLIP at some time.
Switched == \E i \in DOMAIN os.log : os.log[i][1] = "slip" /\ os.log[i][3]

\* C5: a run in which the line discipline was switched to SLIP or the
\* activation command was invoked does not exit before the restore of the
\* recorded line discipline was issued and the deactivation command invoked.
C5_NothingLeftDangling ==
    (pc = "exited" /\ (Switched \/ Activations > 0)) =>
        /\ Teardowns >= 1
        /\ \E i \in DOMAIN os.log : /\ os.log[i][1] = "setd"
                                    /\ os.log[i][2] = sc.oldldisc

\* C6: a relay read of stdin that returns 0 is the last read or write of
\* the run; the run has ended with exit code 0 and one teardown.
C6_EofOnStdin ==
    (lastio.op = "read" /\ lastio.fd = STDIN /\ lastio.res = 0) =>
        /\ pc = "exited" /\ exitcode = 0
        /\ Teardowns = 1

\* C6 witness: the stream ended after the relay had passed packets on.
C6_Witness ==
    /\ lastio.op = "read" /\ lastio.fd = STDIN /\ lastio.res = 0
    /\ masterWritten = HostPayload
    /\ exitAt = "eof"

\* A relay read that returned an error, or a relay write that returned a
\* non-positive count.
IoFailed ==
    \/ lastio.op = "read" /\ lastio.res < 0
    \/ lastio.op = "write" /\ lastio.res <= 0

\* C7: a failed relay read or write is the last read or write of the run;
\* the run has ended with exit code 1 and one teardown.
C7_RelayIoError ==
    IoFailed => /\ pc = "exited" /\ exitcode = 1
                /\ Teardowns = 1

\* C7 witness: a write to stdout returned 0 after bytes had gone both ways.
C7_Witness ==
    /\ IoFailed /\ lastio.fd = STDOUT /\ lastio.res = 0
    /\ masterWritten # <<>> /\ stdoutWritten # <<>>

\* C8: once the request is read, a run whose store has no record with the
\* identity and the requested address gets nowhere but to exit code 1: no
\* descriptor was opened, the real uid was not changed, and no ioctl on the
\* line discipline and no hook command was issued.
C8_AuthorizationFailsClosed ==
    (~InLogin /\ pc # "killed" /\ MatchIdx = {}) =>
        /\ pc = "exited" /\ exitcode = 1
        /\ os.open = {0, 1, 2} /\ sc.masterfd = -1 /\ sc.slavefd = -1
        /\ os.ruid # 0
        /\ os.ldisc = N_TTY
        /\ os.log = <<>>

\* C8 witness: the request "2" was refused against the store "a 1 x s".
C8_Witness ==
    /\ pc = "exited" /\ exitAt = "unauthorized"
    /\ sc.remoteip = <<50>> /\ cfgfile = StoreScript /\ MatchIdx = {}

\* C9: login returns iff some record has exactly the identity and the
\* requested address, and then with the local address and the script of the
\* first such record of the store; otherwise the request is refused.
C9_FirstMatch ==
    /\ pc = "setuid" =>
          /\ MatchIdx # {}
          /\ sc.localip = RecordOf(cfgfile[FirstMatch]).localip
          /\ sc.script = RecordOf(cfgfile[FirstMatch]).script
    /\ exitAt = "unauthorized" => MatchIdx = {}

\* C9 witness: two records match and the first one's local address, which
\* differs from the second's, was adopted.
C9_Witness ==
    /\ pc = "setuid"
    /\ \E i, j \in MatchIdx :
          /\ i < j
          /\ RecordOf(cfgfile[i]).localip # RecordOf(cfgfile[j]).localip
          /\ RecordOf(cfgfile[i]).script # RecordOf(cfgfile[j]).script

\* The position of the first '\n' the host sends; without one, one past the
\* end of what it sends.
FirstNL ==
    IF \E i \in DOMAIN hostData : hostData[i] = NL
    THEN CHOOSE i \in DOMAIN hostData :
            hostData[i] = NL /\ \A j \in 1..(i - 1) : hostData[j] # NL
    ELSE Len(hostData) + 1

\* C10: once login has read the request, the requested address is exactly
\* the bytes before the first '\n', login has consumed those bytes and the
\* '\n' and no more, and what the relay writes to the pty master is what
\* follows the '\n', from its first byte on.
C10_FirstLineBoundary ==
    (pc \notin {"login", "readline", "strip", "killed"}) =>
        /\ sc.remoteip = SubSeq(hostData, 1, FirstNL - 1)
        /\ rl.n = Min(FirstNL, Len(hostData))
        /\ IsPrefix(masterWritten,
                    SubSeq(hostData, FirstNL + 1, Len(hostData)))


\* The relay loop runs: main stands between line 388 and line 428.
InRelay == pc \in {"loop", "select_enter", "select_wait", "h_stdin_read",
                   "h_master_read", "h_master_write", "h_stdout_write"}

\* C11: a relay read or write was only ever done on a link whose descriptor
\* pair was allocated, whose raw mode was set, whose line discipline was
\* switched to SLIP and whose re-query returned N_SLIP and encapsulation 0,
\* and as long as the relay runs the kernel holds just that; a run that
\* ended at a failed step of the link setup ended with exit code 1, without
\* any relay read or write and without the activation command.
C11_NoRelayOverUnverifiedLink ==
    /\ (InRelay \/ lastio.op # "none") =>
          /\ sc.masterfd >= 0 /\ sc.slavefd >= 0 /\ sc.masterfd # sc.slavefd
          /\ os.raw
          /\ Switched
          /\ slip.disc = N_SLIP /\ slip.sencap = 0
    /\ InRelay =>
          /\ {sc.masterfd, sc.slavefd} \subseteq os.open
          /\ os.ldisc = N_SLIP /\ os.encap = 0
    /\ (pc = "exited" /\ exitAt \in SetupExits) =>
          /\ exitcode = 1
          /\ lastio.op = "none"
          /\ Activations = 0

\* C11 witness: the relay has written to the verified link.
C11_Witness ==
    /\ InRelay /\ lastio.op = "write" /\ lastio.fd = sc.masterfd
    /\ os.ldisc = N_SLIP /\ slip.disc = N_SLIP


\* The run ended through an orderly shutdown: the end of the stream on
\* stdin (line 400) or a signal that cleared go (line 431).
OrderlyExit == pc = "exited" /\ exitAt \in {"eof", "return"}

\* C12: when the run ends through an orderly shutdown, every byte the relay
\* read from stdin has been written to the pty master and every byte it read
\* from the pty master has been written to stdout.
C12_NoByteLossAtShutdown ==
    OrderlyExit => /\ masterWritten = stdinRead
                   /\ stdoutWritten = masterRead

(* ------------------------- the relay, scheduled ------------------------ *)

\* The steps the process takes by itself: everything but the arrival of a
\* signal and the return of select.
ProgramStep ==
    \/ LoginStart \/ ReadlineStep \/ LoginStrip \/ GetCfgOpen \/ GetCfgById
    \/ Setuid \/ OpenPtyPair \/ TtySetup \/ SlipGetOld \/ SlipSetDisc
    \/ SlipSetEncap \/ SlipRequery \/ SlipGetEncap \/ SlipVerify
    \/ InterfaceStart \/ FdInit \/ LoopCheck \/ SelectEnter
    \/ HandleStdinRead \/ HandleMasterRead \/ HandleMasterWrite
    \/ HandleStdoutWrite

\* select (line 392) returns reporting descriptor fd readable, or writable.
ReportsReadable(fd) == SelectReturn /\ fd \in readfds'
ReportsWritable(fd) == SelectReturn /\ fd \in writefds'

\* The process is scheduled, and a source that select is asked about again
\* and again is reported readable at some time.  Nothing is assumed of the
\* destinations: either may stay unwritable for ever.
LiveSpec ==
    /\ Init /\ [][Next]_vars
    /\ WF_vars(ProgramStep)
    /\ SF_vars(ReportsReadable(STDIN))
    /\ SF_vars(ReportsReadable(sc.masterfd))

\* The run is over.
RunEnded == pc \in {"exited", "killed"}

\* Each direction has a descriptor in the sets of the select call of line 392.
WaitsOnBoth ==
    /\ STDIN \in readfds \/ sc.masterfd \in writefds
    /\ sc.masterfd \in readfds \/ STDOUT \in writefds

\* C13: select is never called with the descriptors of one direction only;
\* and when the pty master is reported writable whenever it is asked for
\* again and again, then whatever happens to stdout, all the host sent is
\* read and written to the master in full unless the run ends before; the
\* same towards stdout when stdout is reported writable, whatever happens
\* to the master.
C13_DirectionIndependence ==
    /\ [](pc \in {"select_enter", "select_wait"} => WaitsOnBoth)
    /\ SF_vars(ReportsWritable(sc.masterfd)) =>
          (InRelay ~> (RunEnded \/ (hostPos = Len(hostData)
                                    /\ masterWritten = stdinRead)))
    /\ SF_vars(ReportsWritable(STDOUT)) =>
          (InRelay ~> (RunEnded \/ (linkPos = Len(linkData)
                                    /\ stdoutWritten = masterRead)))

\* C13 witness: the host's packets are through to the master while what was
\* read from the master is still waiting for stdout, which took nothing yet.
C13_Witness ==
    /\ InRelay /\ STDOUT \in wfds /\ stdoutbuf.len > 0
    /\ stdoutWritten = <<>>
    /\ masterWritten = HostPayload /\ hostPos = Len(hostData)

\* main stands between the return of select and the end of the cycle.
InCycle == pc \in {"h_stdin_read", "h_master_read", "h_master_write",
                   "h_stdout_write"}

\* C14: when main is about to call bufread on a buffer (lines 396, 408),
\* all that was read into it before has been written on, and its len is 0
\* or it was never filled; and the sets a cycle works on hold, of each
\* direction, the source for reading or the destination for writing, never
\* both.
C14_SingleInFlightBuffer ==
    /\ (pc = "h_stdin_read" /\ STDIN \in readfds) =>
          /\ masterWritten = stdinRead
          /\ stdinbuf.len = 0 \/ stdinRead = <<>>
    /\ (pc = "h_master_read" /\ sc.masterfd \in readfds) =>
          /\ stdoutWritten = masterRead
          /\ stdoutbuf.len = 0 \/ masterRead = <<>>
    /\ InCycle =>
          /\ ~(STDIN \in readfds /\ sc.masterfd \in writefds)
          /\ ~(sc.masterfd \in readfds /\ STDOUT \in writefds)

\* C14 witness: the second read from stdin is about to happen, into the
\* buffer whose first filling has gone out to the master.
C14_Witness ==
    /\ pc = "h_stdin_read" /\ STDIN \in readfds
    /\ stdinRead # <<>> /\ masterWritten = stdinRead
    /\ hostPos < Len(hostData)

(* ------------------- the configuration reader alone -------------------- *)

MaxReaderLines == 3
MaxCalls == 7

\* Lines for the reader: a blank line; a comment of three fields; two
\* fields; three fields; four fields; another three; and two fields of
\* which the second has 64 characters.
ReaderLines ==
    { <<>>,
      <<<<Hash, 97>>, <<49>>, <<120>>>>,
      <<<<97>>, <<49>>>>,
      <<<<97>>, <<49>>, <<120>>>>,
      <<<<97>>, <<49>>, <<121>>, <<115>>>>,
      <<<<98>>, <<50>>, <<120>>>>,
      <<<<97>>, Ones(WRemote + 1)>> }
ReaderStores == UNION { [1..k -> ReaderLines] : k \in 0..MaxReaderLines }

ReaderInit ==
    /\ pc = "scan"
    /\ go = 1
    /\ exitcode = -1
    /\ exitAt = "running"
    /\ pwname = <<97>>
    /\ sc = [masterfd |-> -1, slavefd |-> -1, unit |-> -1, oldldisc |-> -1,
             username |-> <<>>, remoteip |-> <<>>, localip |-> <<>>,
             script |-> <<>>]
    /\ os = [ldisc |-> N_TTY, encap |-> 1, raw |-> FALSE, open |-> {0, 1, 2},
             ruid |-> 1000, log |-> <<>>]
    /\ cfgfile \in ReaderStores
    /\ fp = 0
    /\ cfg = NoCfg
    /\ returned = <<>>
    /\ rl = [n |-> 0, buf |-> <<>>]
    /\ slip = [disc |-> -1, sencap |-> 0]
    /\ hostData = <<>>
    /\ hostPos = 0
    /\ linkData = <<>>
    /\ linkPos = 0
    /\ stdinbuf = [len |-> 0, ptr |-> 0, data |-> <<>>]
    /\ stdoutbuf = [len |-> 0, ptr |-> 0, data |-> <<>>]
    /\ rfds = {} /\ wfds = {} /\ readfds = {} /\ writefds = {}
    /\ n = 0
    /\ stdinRead = <<>> /\ masterWritten = <<>>
    /\ masterRead = <<>> /\ stdoutWritten = <<>>
    /\ lastio = [op |-> "none", fd |-> -1, res |-> 0]
    /\ lastReadLen = [stdin |-> 0, master |-> 0]

\* One call of getcfgentry, lines 130-157, by a caller that goes on calling
\* whatever comes back: the fopen when fp is NULL, then the reading.
ScanCfg ==
    /\ pc = "scan"
    /\ Len(returned) < MaxCalls
    /\ \E opened \in BOOLEAN :
         IF fp = 0 /\ ~opened
         THEN /\ Exit(1, "fopen")
              /\ UNCHANGED cfgVars
         ELSE LET e == getcfgentry(cfgfile, IF fp = 0 THEN 1 ELSE fp, cfg)
              IN  /\ fp' = e.fp
                  /\ cfg' = e.cfg
                  /\ returned' = Append(returned, [ret |-> e.ret, cfg |-> e.cfg])
                  /\ UNCHANGED <<pc, exitVars>>
    /\ UNCHANGED <<go, sc, os, envVars, rl, slip, bufVars, fdVars, ioVars>>

ReaderNext == ScanCfg

ReaderSpec == ReaderInit /\ [][ReaderNext]_vars

\* The calls that returned NULL, and how many calls came before the first.
EndCalls == {i \in DOMAIN returned : ~returned[i].ret}
FirstScanLen ==
    IF EndCalls = {} THEN Len(returned)
    ELSE (CHOOSE i \in EndCalls : \A j \in EndCalls : i <= j) - 1

\* A line of at least three fields whose first does not begin with '#'.
WellFormed(line) == Len(line) >= 3 /\ FirstChar(line[1]) # Hash
WellFormedLines(file) == SelectSeq(file, WellFormed)

\* The record is the line's: its three fields, and its fourth or nothing.
IsRecordOfLine(rec, line) ==
    /\ rec.username = line[1] /\ rec.remoteip = line[2]
    /\ rec.localip = line[3]
    /\ rec.script = IF Len(line) >= 4 THEN line[4] ELSE <<>>

\* C15: the records the getcfgentry calls return up to the first NULL are,
\* in the order of the store, the lines of at least 3 fields whose first
\* field does not begin with '#', each with the line's 4th field as its
\* hook path, or the empty one; and NULL comes when all of them were given.
C15_ReaderFiltering ==
    LET w == WellFormedLines(cfgfile)
    IN  /\ FirstScanLen <= Len(w)
        /\ \A i \in 1..FirstScanLen : IsRecordOfLine(returned[i].cfg, w[i])
        /\ EndCalls # {} => FirstScanLen = Len(w)

\* C16: after a getcfgentry call that returned NULL the store is closed
\* (fp is NULL), after one that returned a record it stays open past that
\* record's line; and the calls after a NULL return what the calls from the
\* first on returned: the same records in the same order, and NULL again
\* after the last of them.
C16_ReaderRescan ==
    /\ returned # <<>> =>
          IF returned[Len(returned)].ret THEN fp > 1 ELSE fp = 0
    /\ \A i \in DOMAIN returned :
          i > FirstScanLen + 1 =>
             LET first == returned[i - (FirstScanLen + 1)]
             IN  /\ returned[i].ret = first.ret
                 /\ returned[i].ret => returned[i].cfg = first.cfg

\* C16 witness: a store of two records was read to its end, and the calls
\* after that have given both records again.
C16_Witness ==
    /\ FirstScanLen = 2 /\ EndCalls # {}
    /\ Len(returned) = 5 /\ returned[5].ret
    /\ returned[1].cfg # returned[2].cfg

\* The places in the kernel's log of the activation command (the system()
\* call of interface_start) and of the deactivation command (that of
\* interface_stop).
UpCalls == {i \in DOMAIN os.log : os.log[i][1] = "up"}
DownCalls == {i \in DOMAIN os.log : os.log[i][1] = "down"}

\* C17: the activation command is invoked at most once; while the process
\* runs no deactivation command has been invoked; and when a run that
\* invoked the activation command has exited, the deactivation command was
\* invoked exactly once, after the activation, with the same unit, the
\* same script (or none in both) and the same remote and local address,
\* and was followed by the restore of the line discipline, the close of the
\* master and the close of the slave, in this order and by nothing else.
C17_MirroredHooks ==
    /\ Cardinality(UpCalls) <= 1
    /\ pc # "exited" => DownCalls = {}
    /\ (pc = "exited" /\ UpCalls # {}) =>
          /\ Cardinality(DownCalls) = 1
          /\ \A u \in UpCalls, d \in DownCalls :
                /\ u < d
                /\ SubSeq(os.log[d], 2, 5) = SubSeq(os.log[u], 2, 5)
                /\ Len(os.log) = d + 3
                /\ os.log[d + 1][1] = "setd" /\ os.log[d + 1][2] = sc.oldldisc
                /\ os.log[d + 2] = <<"close", sc.masterfd>>
                /\ os.log[d + 3] = <<"close", sc.slavefd>>

\* C17 witness: a session with a script ended at the end of the host's
\* stream; both commands carried the script.
C17_Witness ==
    /\ pc = "exited" /\ exitAt = "eof"
    /\ \E u \in UpCalls : os.log[u][3] # <<>> /\ os.log[u][4] # os.log[u][5]
    /\ DownCalls # {}

\* The descriptors the process holds besides stdin, stdout and stderr.
PtyOpen == os.open \ {0, 1, 2}

\* C18: the session's master and slave are both open or both not open, and
\* nothing else is open besides the three standard descriptors: before the
\* allocation and after a failed one nothing, from a successful one on and
\* while the process runs the two, after slip_release nothing.
C18_PairAtomicity ==
    /\ sc.masterfd \in os.open <=> sc.slavefd \in os.open
    /\ PtyOpen \subseteq {sc.masterfd, sc.slavefd}
    /\ (sc.masterfd < 0 \/ sc.slavefd < 0) => PtyOpen = {}
    /\ (sc.masterfd >= 0 /\ pc \notin {"exited", "killed"}) =>
          /\ PtyOpen = {sc.masterfd, sc.slavefd}
          /\ sc.masterfd # sc.slavefd
    /\ Teardowns > 0 => PtyOpen = {}

\* C18 witness: a pair was allocated, the session ran and slip_release has
\* closed both.
C18_Witness ==
    /\ pc = "exited" /\ Teardowns > 0 /\ sc.masterfd >= 0 /\ sc.slavefd >= 0
    /\ PtyOpen = {} /\ lastio.op # "none"


\* login has returned: its last statements (lines 188-189) are done.
LoginReturned == pc \notin {"login", "readline", "strip", "getcfgbyid",
                            "scan", "exited", "killed"}

\* C19: once login has returned, the session's remote address and its local
\* address are non-empty strings; so a request with the empty address, which
\* is what a first line of a lone newline leaves, has not been authorized,
\* whatever the store holds.
C19_NonEmptyAddresses ==
    LoginReturned => sc.remoteip # <<>> /\ sc.localip # <<>>

\* C19 witness: a request was authorized by the second line of a store.
C19_Witness ==
    /\ LoginReturned /\ Len(cfgfile) = 2 /\ fp = 3
    /\ sc.remoteip # <<>> /\ sc.localip # <<>>


\* The bytes of a direction read and not yet written on.
HostPending == Len(stdinRead) - Len(masterWritten)
LinkPending == Len(masterRead) - Len(stdoutWritten)

\* C20: when select is about to be called, the pty master is registered for
\* write exactly when bytes read from stdin are not yet written to it, and
\* then stdinbuf.len is their number, above 0 and at most the buffer's
\* size, and ptr + len is what the last read of stdin returned; the same
\* for stdout and the bytes read from the master.  A write is called with
\* len above 0.  After a read of the master that returned 0 the run goes
\* on, with the master registered for read and stdout not for write.
C20_BufferInvariant ==
    /\ AtSelect =>
          /\ sc.masterfd \in wfds <=> HostPending > 0
          /\ sc.masterfd \in wfds =>
                /\ stdinbuf.len = HostPending
                /\ 0 < stdinbuf.len /\ stdinbuf.len <= BufSize
                /\ stdinbuf.ptr + stdinbuf.len = lastReadLen.stdin
          /\ STDOUT \in wfds <=> LinkPending > 0
          /\ STDOUT \in wfds =>
                /\ stdoutbuf.len = LinkPending
                /\ 0 < stdoutbuf.len /\ stdoutbuf.len <= BufSize
                /\ stdoutbuf.ptr + stdoutbuf.len = lastReadLen.master
    /\ (pc = "h_master_write" /\ sc.masterfd \in writefds) => stdinbuf.len > 0
    /\ (pc = "h_stdout_write" /\ STDOUT \in writefds) => stdoutbuf.len > 0
    /\ (pc = "h_master_write" /\ lastio.op = "read" /\ lastio.fd = sc.masterfd
        /\ lastio.res = 0) =>
          /\ sc.masterfd \in rfds /\ STDOUT \notin wfds
          /\ stdoutbuf.len = 0 /\ exitAt = "running"

\* C20 witness: select is about to be called in the middle of a buffer on
\* its way to stdout, part of what the read gave written, part not yet.
C20_Witness ==
    /\ AtSelect /\ STDOUT \in wfds
    /\ stdoutbuf.ptr > 0 /\ stdoutbuf.len > 0
    /\ lastReadLen.master = MaxLinkBytes

=============================================================================
